---- MODULE Spec2Model ----
(***************************************************************************)
(* Model of ptunifier/models/objectives.py: the per-batch objective        *)
(* functions (compute_mlm ... compute_irtr), their phase-keyed metric      *)
(* accumulators, and the distributed recall evaluator compute_irtr_recall. *)
(*                                                                         *)
(* Tensors are sequences (1-based; source index k is model index k+1).     *)
(* Outputs of the external collaborators (encoder, heads, tokenizer,       *)
(* generate/batch_decode) are carried in the variable infer; opaque logits *)
(* are represented by the position they were computed for.                 *)
(***************************************************************************)
EXTENDS Integers, Sequences, FiniteSets, TLC

\* ---------------------------------------------------------------- bounds
MaxCalls   == 1   \* objective calls between two accumulator resets
MaxBatch   == 3   \* examples per batch
MaxViews   == 2   \* augmentation views in batch["image"]
NumPixels  == 3   \* distinct image contents
MaxPatches == 2   \* patches per image (MIM)
MaxFeat    == 2   \* feature width of a patch (MIM)
MaxLen     == 3   \* padded token length (CLM)
MaxFalse   == 2   \* largest draw_false_text (IRTR)
MaxImages  == 3   \* images of a small retrieval corpus
MaxWorld   == 2   \* processes of the distributed group
MaxAnswers == 2   \* largest vqa_label_size
MaxPairs   == 2   \* (answer, score) pairs of one VQA example

VARIABLES
    training,    \* pl_module.training
    config,      \* pl_module.hparams.config and tokenizer ids
    batch,       \* the batch handed to the objective
    infer,       \* what the external collaborators return for this batch
    acc,         \* number of updates of every metric accumulator
    calls,       \* objective calls since the last accumulator reset
    last_call,   \* arguments of the last objective call
    updates,     \* accumulator updates made by the last call, in order
    logged,      \* keys passed to pl_module.log by the last call, in order
    enc_in,      \* what the last call handed to the encoder / decoder
    ret,         \* the result record of the last call
    \* compute_irtr_recall, one entry per process (rank r is process r + 1)
    dset,               \* the validation corpus and the scores the head gives
    world,              \* number of processes
    pc,                 \* where each process is in compute_irtr_recall
    text_preload,       \* the prefetched text batches
    tiids,              \* the img_index of every prefetched text
    image_preload,      \* the prefetched images of the process's shard
    rank_scores,        \* one list of scores per ranked image
    rank_iids,          \* the img_index of every ranked image
    arrived,            \* processes that have entered the barrier
    gathering_scores,   \* processes that have entered all_gather(rank_scores)
    gathering_iids,     \* processes that have entered all_gather(rank_iids)
    gather_rank_scores, \* what all_gather(rank_scores) returned
    gather_rank_iids,   \* what all_gather(rank_iids) returned
    iids,               \* the flattened global image ids
    scores,             \* the global score matrix, one row per entry of iids
    result              \* what compute_irtr_recall returned or raised

objVars == <<training, config, batch, infer, acc, calls, last_call,
             updates, logged, enc_in, ret>>

recallVars == <<dset, world, pc, text_preload, tiids, image_preload, rank_scores,
                rank_iids, arrived, gathering_scores, gathering_iids,
                gather_rank_scores, gather_rank_iids, iids, scores, result>>

vars == <<objVars, recallVars>>

\* ---------------------------------------------------------------- helpers
RECURSIVE SumSeq(_)
SumSeq(s) == IF s = <<>> THEN 0 ELSE Head(s) + SumSeq(Tail(s))

RECURSIVE Flatten(_)
\* tensor.view(-1) of a 2-d tensor: row-major concatenation of the rows
Flatten(rows) == IF rows = <<>> THEN <<>> ELSE Head(rows) \o Flatten(Tail(rows))

Min(a, b) == IF a < b THEN a ELSE b

\* zip(a, b): pairs up to the shorter length
Zip(a, b) == [k \in 1..Min(Len(a), Len(b)) |-> <<a[k], b[k]>>]

Perms(n) == {p \in [1..n -> 1..n] : \A i, j \in 1..n : p[i] = p[j] => i = j}

Range(s) == {s[k] : k \in DOMAIN s}

\* ------------------------------------------------- phases and accumulators
Phases == {"train", "val", "test"}

TaskMetrics ==
    {<<"mlm", "loss">>, <<"mlm", "accuracy">>,
     <<"umlm", "loss">>, <<"umlm", "accuracy">>,
     <<"mim", "loss">>, <<"umim", "loss">>,
     <<"itm", "loss">>, <<"itm", "accuracy">>,
     <<"itc", "loss">>,
     <<"vqa", "loss">>, <<"vqa", "score">>,
     <<"cls", "loss">>, <<"cls", "accuracy">>,
     <<"mlc", "loss">>, <<"mlc", "aucroc">>, <<"mlc", "f1">>,
     <<"clm", "loss">>, <<"clm", "bleu_1">>, <<"clm", "bleu_2">>,
     <<"clm", "bleu_3">>, <<"clm", "bleu_4">>, <<"clm", "rouge">>,
     <<"clm", "coco_caption">>, <<"clm", "jb">>,
     <<"irtr", "loss">>}

\* getattr(pl_module, f"{phase}_{task}_{metric}")
AccName(phase, task, metric) == <<phase, task, metric>>

AccNames == {AccName(p, tm[1], tm[2]) : p \in Phases, tm \in TaskMetrics}

\* f"{task}/{phase}/{metric}"
LogKey(task, phase, metric) == <<task, phase, metric>>

\* phase = "train" if pl_module.training else "val"
TrainOrVal == IF training THEN "train" ELSE "val"

PhaseIgnoringTest(test) == TrainOrVal

\* if test: phase = "test" else: phase = "train" if pl_module.training else "val"
Phase(test) == IF test THEN "test" ELSE TrainOrVal

\* one accumulator update: the accumulator and the ret fields handed to it
Upd(name, args) == [acc |-> name, args |-> args]

Bump(a, upd) ==
    [n \in AccNames |-> a[n] + Cardinality({k \in DOMAIN upd : upd[k].acc = n})]

\* F.cross_entropy(logits, labels, ignore_index): the mean over the terms
\* whose label is not ignore_index; the loss is represented by those terms.
CrossEntropyAll(logits, labels, ignore_index) ==
    [k \in 1..Len(labels) |-> <<logits[k], labels[k]>>]

CrossEntropy(logits, labels, ignore_index) ==
    SelectSeq([k \in 1..Len(labels) |-> <<logits[k], labels[k]>>],
              LAMBDA term : term[2] # ignore_index)

\* the bookkeeping every objective ends with
Finish(task, test, upd, logs, r, ein) ==
    /\ calls < MaxCalls
    /\ acc' = Bump(acc, upd)
    /\ updates' = upd
    /\ logged' = logs
    /\ ret' = r
    /\ enc_in' = ein
    /\ calls' = calls + 1
    /\ last_call' = [task |-> task, test |-> test, training |-> training]
    /\ UNCHANGED <<training, config, batch, infer, recallVars>>

\* the batch size
BatchSize == Len(batch.text)

NoLossLabel == -100

\* ---------------------------------------------------------------- MLM
compute_mlm ==
    LET mlm_logits == infer.mlm_logits
        mlm_labels == infer.text_labels
        mlm_loss   == CrossEntropy(Flatten(mlm_logits), Flatten(mlm_labels), NoLossLabel)
        phase      == TrainOrVal
    IN  Finish("mlm", FALSE,
               <<Upd(AccName(phase, "mlm", "loss"), <<"mlm_loss">>),
                 Upd(AccName(phase, "mlm", "accuracy"), <<"mlm_logits", "mlm_labels">>)>>,
               <<LogKey("mlm", phase, "loss"), LogKey("mlm", phase, "accuracy")>>,
               [task |-> "mlm", mlm_loss |-> mlm_loss, mlm_logits |-> mlm_logits,
                mlm_labels |-> mlm_labels, mlm_ids |-> infer.text_ids],
               [mask_text |-> TRUE, mask_image |-> FALSE,
                pseudo_vision |-> FALSE, pseudo_language |-> FALSE])

compute_umlm ==
    LET umlm_logits == infer.mlm_logits
        umlm_labels == infer.text_labels
        umlm_loss   == CrossEntropy(Flatten(umlm_logits), Flatten(umlm_labels), NoLossLabel)
        phase       == TrainOrVal
    IN  Finish("umlm", FALSE,
               <<Upd(AccName(phase, "umlm", "loss"), <<"umlm_loss">>),
                 Upd(AccName(phase, "umlm", "accuracy"), <<"umlm_logits", "umlm_labels">>)>>,
               <<LogKey("umlm", phase, "loss"), LogKey("umlm", phase, "accuracy")>>,
               [task |-> "umlm", umlm_loss |-> umlm_loss, umlm_logits |-> umlm_logits,
                umlm_labels |-> umlm_labels, umlm_ids |-> infer.text_ids],
               [mask_text |-> TRUE, mask_image |-> FALSE,
                pseudo_vision |-> TRUE, pseudo_language |-> FALSE])

\* ---------------------------------------------------------------- MIM
Sign(x) == IF x > 0 THEN 1 ELSE IF x < 0 THEN -1 ELSE 0

\* target = (target - mean) / (var + 1.e-6) ** .5 along the last axis.  The
\* square root has no integer value; each feature is represented by the sign
\* of its deviation from the patch mean, which keeps the standardisation
\* per patch and zero-centred.
NormPix(target) ==
    [n \in DOMAIN target |->
        [l \in DOMAIN target[n] |->
            LET p == target[n][l]
            IN  [d \in DOMAIN p |-> Sign(p[d] * Len(p) - SumSeq(p))]]]

\* ((logits - labels) ** 2) summed over the last axis, for patch l of image n
SqErr(logits, labels, n, l) ==
    SumSeq([d \in DOMAIN logits[n][l] |->
               (logits[n][l][d] - labels[n][l][d]) * (logits[n][l][d] - labels[n][l][d])])

\* the feature width (size of the last axis)
FeatDim(logits) == Len(logits[1][1])

MimLossUnmasked(logits, labels, mask) ==
    [num |-> SumSeq(Flatten([n \in DOMAIN mask |->
                       [l \in DOMAIN mask[n] |-> SqErr(logits, labels, n, l)]])),
     den |-> FeatDim(logits) * SumSeq(Flatten(mask))]

\* loss = ((logits - labels) ** 2).mean(dim=-1); (loss * mask).sum() / mask.sum()
\* as the fraction num / den (every patch mean has the denominator FeatDim);
\* den = 0 is the 0 / 0 the code computes when no patch is masked.
MimLoss(logits, labels, mask) ==
    [num |-> SumSeq(Flatten([n \in DOMAIN mask |->
                       [l \in DOMAIN mask[n] |-> SqErr(logits, labels, n, l) * mask[n][l]]])),
     den |-> FeatDim(logits) * SumSeq(Flatten(mask))]

\* infer["multi_modal_image_feats"] or infer[f"multi_modal_image_feats_{layer_idx}"],
\* passed through pl_module.mim_head
MimLogits == infer.mim_logits[config.mim_layer]

MimLabels ==
    IF config.norm_pix_loss THEN NormPix(infer.patched_images) ELSE infer.patched_images

compute_mim ==
    LET mim_logits == MimLogits
        mim_labels == MimLabels
        mim_loss   == MimLoss(mim_logits, mim_labels, infer.mim_masks)
        phase      == TrainOrVal
    IN  Finish("mim", FALSE,
               <<Upd(AccName(phase, "mim", "loss"), <<"mim_loss">>)>>,
               <<LogKey("mim", phase, "loss"), LogKey("mim", phase, "accuracy")>>,
               [task |-> "mim", mim_loss |-> mim_loss, mim_logits |-> mim_logits,
                mim_labels |-> mim_labels],
               [mask_text |-> FALSE, mask_image |-> TRUE,
                pseudo_vision |-> FALSE, pseudo_language |-> FALSE])

compute_umim ==
    LET umim_logits == MimLogits
        umim_labels == MimLabels
        umim_loss   == MimLoss(umim_logits, umim_labels, infer.mim_masks)
        phase       == TrainOrVal
    IN  Finish("umim", FALSE,
               <<Upd(AccName(phase, "umim", "loss"), <<"umim_loss">>)>>,
               <<LogKey("umim", phase, "loss"), LogKey("umim", phase, "accuracy")>>,
               [task |-> "umim", umim_loss |-> umim_loss, umim_logits |-> umim_logits,
                umim_labels |-> umim_labels],
               [mask_text |-> FALSE, mask_image |-> TRUE,
                pseudo_vision |-> FALSE, pseudo_language |-> TRUE])

\* ---------------------------------------------------------------- ITM
PosLenCeil(n) == (n + 1) \div 2

\* pos_len = len(batch["text"]) // 2
PosLen(n) == n \div 2

\* neg_len = len(batch["text"]) - pos_len
NegLen(n) == n - PosLen(n)

\* torch.cat([torch.ones(pos_len), torch.zeros(neg_len)])
ItmBaseLabels(n) == [k \in 1..(PosLen(n) + NegLen(n)) |-> IF k <= PosLen(n) THEN 1 ELSE 0]

\* itm_labels[torch.randperm(itm_labels.size(0))]
Permute(labels, perm) == [k \in DOMAIN labels |-> labels[perm[k]]]

ItmImagesSwapped(image, false_image, itm_labels) ==
    [v \in 1..Min(Len(image), Len(false_image)) |->
        [i \in 1..Min(Len(image[v]), Len(false_image[v])) |->
            IF itm_labels[i] = 1 THEN false_image[v][i] ELSE image[v][i]]]

\* [stack([ti if itm_labels[i] == 1 else fi for i, (ti, fi) in enumerate(zip(bti, bfi))])
\*  for bti, bfi in zip(batch["image"], batch["false_image_0"])]
ItmImages(image, false_image, itm_labels) ==
    [v \in 1..Min(Len(image), Len(false_image)) |->
        [i \in 1..Min(Len(image[v]), Len(false_image[v])) |->
            IF itm_labels[i] = 1 THEN image[v][i] ELSE false_image[v][i]]]

compute_itm ==
    \E perm \in Perms(BatchSize) :
        LET itm_labels == Permute(ItmBaseLabels(BatchSize), perm)
            itm_images == ItmImages(batch.image, batch.false_image_0, itm_labels)
            itm_logits == infer.itm_logits
            itm_loss   == CrossEntropy(itm_logits, itm_labels, NoLossLabel)
            phase      == TrainOrVal
        IN  Finish("itm", FALSE,
                   <<Upd(AccName(phase, "itm", "loss"), <<"itm_loss">>),
                     Upd(AccName(phase, "itm", "accuracy"), <<"itm_logits", "itm_labels">>)>>,
                   <<LogKey("itm", phase, "loss"), LogKey("itm", phase, "accuracy")>>,
                   [task |-> "itm", itm_loss |-> itm_loss, itm_logits |-> itm_logits,
                    itm_labels |-> itm_labels],
                   [mask_text |-> FALSE, mask_image |-> FALSE,
                    pseudo_vision |-> FALSE, pseudo_language |-> FALSE,
                    image |-> itm_images])

\* ---------------------------------------------------------------- ITC
compute_itc ==
    LET itc_logits_image == infer.itc_logits_image
        itc_logits_text  == infer.itc_logits_text
        \* torch.arange(itc_logits_image.size(0))
        itc_labels == [k \in 1..Len(itc_logits_image) |-> k - 1]
        itc_loss   == [half_of |-> <<CrossEntropy(itc_logits_image, itc_labels, NoLossLabel),
                                     CrossEntropy(itc_logits_text, itc_labels, NoLossLabel)>>]
        phase      == TrainOrVal
    IN  Finish("itc", FALSE,
               <<Upd(AccName(phase, "itc", "loss"), <<"itc_loss">>)>>,
               <<LogKey("itc", phase, "loss"), LogKey("itc", phase, "accuracy")>>,
               [task |-> "itc", itc_loss |-> itc_loss,
                itc_logits_image |-> itc_logits_image,
                itc_logits_text |-> itc_logits_text, itc_labels |-> itc_labels],
               <<[pseudo_vision |-> FALSE, pseudo_language |-> TRUE],
                 [pseudo_vision |-> TRUE, pseudo_language |-> FALSE]>>)

\* ---------------------------------------------------------------- VQA
RECURSIVE ScatterRowAdding(_, _)
ScatterRowAdding(row, pairs) ==
    IF pairs = <<>> THEN row
    ELSE ScatterRowAdding([row EXCEPT ![Head(pairs)[1] + 1] = @ + Head(pairs)[2]],
                          Tail(pairs))

RECURSIVE ScatterRow(_, _)
\* for l, s in zip(_label, _score): vqa_targets[i, l] = s
ScatterRow(row, pairs) ==
    IF pairs = <<>> THEN row
    ELSE ScatterRow([row EXCEPT ![Head(pairs)[1] + 1] = Head(pairs)[2]], Tail(pairs))

\* torch.zeros(len(vqa_logits), vqa_label_size), then the scatter loop
VqaTargets(n, vqa_labels, vqa_scores) ==
    [i \in 1..n |->
        IF i <= Min(Len(vqa_labels), Len(vqa_scores))
        THEN ScatterRow([l \in 1..config.vqa_label_size |-> 0],
                        Zip(vqa_labels[i], vqa_scores[i]))
        ELSE [l \in 1..config.vqa_label_size |-> 0]]

compute_vqa(test) ==
    LET vqa_logits  == infer.vqa_logits
        vqa_targets == VqaTargets(Len(vqa_logits), batch.vqa_labels, batch.vqa_scores)
        \* F.binary_cross_entropy_with_logits(...) * vqa_targets.shape[1]
        vqa_loss    == [bce_with_logits |-> <<vqa_logits, vqa_targets>>,
                        times |-> config.vqa_label_size]
        phase       == Phase(test)
    IN  Finish("vqa", test,
               <<Upd(AccName(phase, "vqa", "loss"), <<"vqa_loss">>),
                 Upd(AccName(phase, "vqa", "score"),
                     <<"vqa_logits", "vqa_targets", "vqa_answer_types">>)>>,
               <<LogKey("vqa", phase, "loss"), LogKey("vqa", phase, "score")>>,
               [task |-> "vqa", vqa_loss |-> vqa_loss, vqa_logits |-> vqa_logits,
                vqa_targets |-> vqa_targets, vqa_labels |-> batch.vqa_labels,
                vqa_scores |-> batch.vqa_scores,
                vqa_answer_types |-> batch.answer_types],
               [mask_text |-> FALSE, mask_image |-> FALSE,
                pseudo_vision |-> FALSE, pseudo_language |-> FALSE])

\* ---------------------------------------------------------------- CLS, MLC
compute_cls(test) ==
    LET cls_logits == infer.cls_logits
        cls_labels == batch.cls_labels
        cls_loss   == CrossEntropy(cls_logits, cls_labels, NoLossLabel)
        phase      == Phase(test)
    IN  Finish("cls", test,
               <<Upd(AccName(phase, "cls", "loss"), <<"cls_loss">>),
                 Upd(AccName(phase, "cls", "accuracy"), <<"cls_logits", "cls_labels">>)>>,
               <<LogKey("cls", phase, "loss"), LogKey("cls", phase, "accuracy")>>,
               [task |-> "cls", cls_loss |-> cls_loss, cls_logits |-> cls_logits,
                cls_labels |-> cls_labels],
               [mask_text |-> FALSE, mask_image |-> FALSE,
                pseudo_vision |-> config.language_only,
                pseudo_language |-> config.vision_only])

compute_mlc(test) ==
    LET mlc_logits == infer.mlc_logits
        mlc_labels == batch.mlc_labels
        mlc_loss   == [bce_with_logits |-> <<mlc_logits, mlc_labels>>]
        phase      == Phase(test)
    IN  Finish("mlc", test,
               <<Upd(AccName(phase, "mlc", "loss"), <<"mlc_loss">>),
                 Upd(AccName(phase, "mlc", "aucroc"), <<"mlc_logits", "mlc_labels">>),
                 Upd(AccName(phase, "mlc", "f1"), <<"mlc_logits", "mlc_labels">>)>>,
               <<LogKey("mlc", phase, "loss")>>,
               [task |-> "mlc", mlc_loss |-> mlc_loss, mlc_logits |-> mlc_logits,
                mlc_labels |-> mlc_labels],
               [pseudo_vision |-> config.language_only,
                pseudo_language |-> config.vision_only])

\* ---------------------------------------------------------------- CLM
FallbackText == "there is no evidence of pulmonary."

\* str.lower() on the texts the batches carry
Lower(text) ==
    CASE text = "Clear Lungs" -> "clear lungs"
      [] text = "No Effusion" -> "no effusion"
      [] OTHER -> text

KeepEmpty(text) == text

\* text if len(text) > 0 else "there is no evidence of pulmonary."
NonEmpty(text) == IF text # "" THEN text ELSE FallbackText

ShiftLogitsRight(logits) == [b \in DOMAIN logits |-> Tail(logits[b])]

\* clm_logits[:, :-1, :]
ShiftLogits(logits) ==
    [b \in DOMAIN logits |-> SubSeq(logits[b], 1, Len(logits[b]) - 1)]

\* texts_inputs.input_ids[:, 1:]
ShiftLabels(input_ids) == [b \in DOMAIN input_ids |-> Tail(input_ids[b])]

\* torch.arange(bs).view(-1, 1).repeat(1, num_beams).view(-1)
ExpandedIdx(bs, num_beams) ==
    [k \in 1..(bs * num_beams) |-> (k - 1) \div num_beams]

ClmTextMetrics == <<"bleu_1", "bleu_2", "bleu_3", "bleu_4", "rouge", "coco_caption", "jb">>

ClmDecodeInTrain(phase) == TRUE

\* if not phase == "train"
ClmDecodes(phase) == phase # "train"

compute_clm(test) ==
    LET phase      == Phase(test)
        raw        == IF config.vision_only THEN batch.findings ELSE batch.impression
        texts      == [k \in DOMAIN raw |-> Lower(raw[k])]
        input_ids  == infer.clm_input_ids
        clm_logits == ShiftLogits(infer.clm_logits)
        clm_labels == ShiftLabels(input_ids)
        clm_loss   == CrossEntropy(Flatten(clm_logits), Flatten(clm_labels),
                                   config.pad_token_id)
        base       == [task |-> "clm", clm_loss |-> clm_loss,
                       clm_logits |-> clm_logits, clm_labels |-> clm_labels]
        lossUpd    == <<Upd(AccName(phase, "clm", "loss"), <<"clm_loss">>)>>
        ctx        == [pseudo_vision |-> config.language_only,
                       pseudo_language |-> config.vision_only,
                       texts |-> texts]
        bs         == Len(input_ids)
        gen_texts  == [k \in DOMAIN infer.decoded |-> NonEmpty(infer.decoded[k])]
    IN  IF ClmDecodes(phase)
        THEN Finish("clm", test,
                    lossUpd \o [k \in 1..Len(ClmTextMetrics) |->
                                   Upd(AccName(phase, "clm", ClmTextMetrics[k]),
                                       <<"gen_texts", "gt_texts">>)],
                    <<LogKey("clm", phase, "loss")>>,
                    [task |-> "clm", clm_loss |-> clm_loss,
                     clm_logits |-> clm_logits, clm_labels |-> clm_labels,
                     gen_texts |-> gen_texts, gt_texts |-> texts],
                    [pseudo_vision |-> config.language_only,
                     pseudo_language |-> config.vision_only,
                     texts |-> texts,
                     gen_input_ids |-> [k \in 1..bs |-> <<config.cls_token_id>>],
                     gen_context |-> ExpandedIdx(bs, config.clm_num_beams)])
        ELSE Finish("clm", test, lossUpd, <<LogKey("clm", phase, "loss")>>, base, ctx)

\* ---------------------------------------------------------------- IRTR
IrtrCandidatesTrueLast(true_field, false_fields, false_len) ==
    [b \in DOMAIN true_field |->
        [i \in 1..false_len |-> false_fields[i][b]] \o <<true_field[b]>>]

\* torch.cat([batch[f].unsqueeze(1),
\*            torch.stack([batch[f"false_text_{i}_..."] for i in range(false_len)], dim=1)], dim=1)
IrtrCandidates(true_field, false_fields, false_len) ==
    [b \in DOMAIN true_field |->
        <<true_field[b]>> \o [i \in 1..false_len |-> false_fields[i][b]]]

\* batch["image"][0].unsqueeze(1).expand(_bs, false_len + 1, ...)
IrtrImages(image0, false_len) ==
    [b \in DOMAIN image0 |-> [j \in 1..(false_len + 1) |-> image0[b]]]

UnflattenColumnMajor(flat, bs, fs) ==
    [b \in 1..bs |-> [j \in 1..fs |-> flat[(j - 1) * bs + b]]]

\* rearrange(score, "(bs fs) -> bs fs", bs=_bs, fs=false_len + 1)
Unflatten(flat, bs, fs) ==
    [b \in 1..bs |-> [j \in 1..fs |-> flat[(b - 1) * fs + j]]]

\* pl_module.irtr_head(pl_module.infer(batch_infer)["multi_modal_cls_feats"])[:, 0]:
\* one score per flattened (image, text) item, represented by the item scored
IrtrScores(batch_infer) ==
    [k \in DOMAIN batch_infer.text_ids |->
        [image |-> batch_infer.image[k], text_ids |-> batch_infer.text_ids[k],
         text_masks |-> batch_infer.text_masks[k]]]

compute_irtr(test) ==
    LET bs          == Len(batch.image[1])
        false_len   == config.draw_false_text
        text_ids    == IrtrCandidates(batch.text_ids, batch.false_text_ids, false_len)
        text_masks  == IrtrCandidates(batch.text_masks, batch.false_text_masks, false_len)
        text_labels == IrtrCandidates(batch.text_labels, batch.false_text_labels, false_len)
        images      == IrtrImages(batch.image[1], false_len)
        batch_infer == [image |-> Flatten(images), text_ids |-> Flatten(text_ids),
                        text_masks |-> Flatten(text_masks),
                        text_labels |-> Flatten(text_labels)]
        score       == Unflatten(IrtrScores(batch_infer), bs, false_len + 1)
        answer      == [b \in 1..bs |-> 0]
        irtr_loss   == CrossEntropy(score, answer, NoLossLabel)
        phase       == Phase(test)
    IN  Finish("irtr", test,
               <<Upd(AccName(phase, "irtr", "loss"), <<"irtr_loss">>)>>,
               <<LogKey("irtr", phase, "irtr_loss")>>,
               [task |-> "irtr", irtr_loss |-> irtr_loss],
               batch_infer)

\* ------------------------------------------------- compute_irtr_recall
TextBatchSize == 256

K1 == 1

K5 == 5

K10 == 10

Procs == 1..world

CeilDiv(a, b) == (a + b - 1) \div b

ShardBlocked(n, W, rank) ==
    [k \in 1..CeilDiv(n, W) |-> (rank * CeilDiv(n, W) + (k - 1)) % n]

\* DistributedSampler(image_dset, shuffle=False) for the process of this rank:
\* range(n) padded with its own first entries to a multiple of W, then every
\* W-th entry from rank on
ShardIndices(n, W, rank) ==
    [k \in 1..CeilDiv(n, W) |-> (rank + (k - 1) * W) % n]

\* the texts of the text loader, batch_size at a time, in dataset order
TextBatches(T) ==
    [j \in 1..CeilDiv(T, TextBatchSize) |->
        LET first == (j - 1) * TextBatchSize + 1
            last  == Min(j * TextBatchSize, T)
        IN  [text_ids  |-> [m \in 1..(last - first + 1) |-> first + m - 1],
             img_index |-> [m \in 1..(last - first + 1) |-> dset.tiids[first + m - 1]]]]

\* the text and image prefetch loops
Prefetch(p) ==
    /\ pc[p] = "prefetch"
    /\ text_preload' = [text_preload EXCEPT ![p] = TextBatches(Len(dset.tiids))]
    /\ tiids' = [tiids EXCEPT ![p] =
                    Flatten([j \in DOMAIN text_preload'[p] |-> text_preload'[p][j].img_index])]
    /\ image_preload' = [image_preload EXCEPT ![p] =
                            LET shard == ShardIndices(dset.images, world, p - 1)
                            IN  [k \in DOMAIN shard |->
                                    [image |-> shard[k], img_index |-> shard[k]]]]
    /\ pc' = [pc EXCEPT ![p] = "rank"]
    /\ UNCHANGED <<dset, world, rank_scores, rank_iids, arrived, gathering_scores,
                   gathering_iids, gather_rank_scores, gather_rank_iids, iids,
                   scores, result, objVars>>

\* irtr_head(infer(txt_batch, img=im))[:, 0] for every text batch, concatenated
ImgBatchScore(p, image) ==
    Flatten([j \in DOMAIN text_preload[p] |->
                [m \in DOMAIN text_preload[p][j].text_ids |->
                    dset.score[image + 1][text_preload[p][j].text_ids[m]]]])

\* one iteration of the rank loop
RankStep(p) ==
    /\ pc[p] = "rank"
    /\ Len(rank_iids[p]) < Len(image_preload[p])
    /\ LET img_batch == image_preload[p][Len(rank_iids[p]) + 1]
       IN  /\ rank_scores' = [rank_scores EXCEPT ![p] =
                                 Append(@, ImgBatchScore(p, img_batch.image))]
           /\ rank_iids' = [rank_iids EXCEPT ![p] = Append(@, img_batch.img_index)]
    /\ UNCHANGED <<dset, world, pc, text_preload, tiids, image_preload, arrived,
                   gathering_scores, gathering_iids, gather_rank_scores,
                   gather_rank_iids, iids, scores, result, objVars>>

\* the rank loop is over: the process enters torch.distributed.barrier()
EnterBarrier(p) ==
    /\ pc[p] = "rank"
    /\ Len(rank_iids[p]) = Len(image_preload[p])
    /\ arrived' = arrived \cup {p}
    /\ pc' = [pc EXCEPT ![p] = "barrier"]
    /\ UNCHANGED <<dset, world, text_preload, tiids, image_preload, rank_scores,
                   rank_iids, gathering_scores, gathering_iids, gather_rank_scores,
                   gather_rank_iids, iids, scores, result, objVars>>

BarrierNeverWaits == TRUE

\* torch.distributed.barrier() returns once every process has entered it
BarrierOpen == arrived = Procs

LeaveBarrier(p) ==
    /\ pc[p] = "barrier"
    /\ BarrierOpen
    /\ pc' = [pc EXCEPT ![p] = "gather_scores"]
    /\ UNCHANGED <<dset, world, text_preload, tiids, image_preload, rank_scores,
                   rank_iids, arrived, gathering_scores, gathering_iids,
                   gather_rank_scores, gather_rank_iids, iids, scores, result, objVars>>

\* all_gather(data): the list of every process's data, in rank order
AllGather(data) == [q \in Procs |-> data[q]]

\* the process calls all_gather(rank_scores)
StartGatherScores(p) ==
    /\ pc[p] = "gather_scores"
    /\ gathering_scores' = gathering_scores \cup {p}
    /\ pc' = [pc EXCEPT ![p] = "wait_scores"]
    /\ UNCHANGED <<dset, world, text_preload, tiids, image_preload, rank_scores,
                   rank_iids, arrived, gathering_iids, gather_rank_scores,
                   gather_rank_iids, iids, scores, result, objVars>>

\* all_gather(rank_scores) returns once every process has contributed
EndGatherScores(p) ==
    /\ pc[p] = "wait_scores"
    /\ gathering_scores = Procs
    /\ gather_rank_scores' = [gather_rank_scores EXCEPT ![p] = AllGather(rank_scores)]
    /\ pc' = [pc EXCEPT ![p] = "gather_iids"]
    /\ UNCHANGED <<dset, world, text_preload, tiids, image_preload, rank_scores,
                   rank_iids, arrived, gathering_scores, gathering_iids,
                   gather_rank_iids, iids, scores, result, objVars>>

\* the process calls all_gather(rank_iids)
StartGatherIids(p) ==
    /\ pc[p] = "gather_iids"
    /\ gathering_iids' = gathering_iids \cup {p}
    /\ pc' = [pc EXCEPT ![p] = "wait_iids"]
    /\ UNCHANGED <<dset, world, text_preload, tiids, image_preload, rank_scores,
                   rank_iids, arrived, gathering_scores, gather_rank_scores,
                   gather_rank_iids, iids, scores, result, objVars>>

EndGatherIids(p) ==
    /\ pc[p] = "wait_iids"
    /\ gathering_iids = Procs
    /\ gather_rank_iids' = [gather_rank_iids EXCEPT ![p] = AllGather(rank_iids)]
    /\ pc' = [pc EXCEPT ![p] = "recall"]
    /\ UNCHANGED <<dset, world, text_preload, tiids, image_preload, rank_scores,
                   rank_iids, arrived, gathering_scores, gathering_iids,
                   gather_rank_scores, iids, scores, result, objVars>>

ViewIidsInterleaved(gathered) ==
    [r \in 1..(Len(gathered) * Len(gathered[1])) |->
        gathered[((r - 1) % Len(gathered)) + 1][((r - 1) \div Len(gathered)) + 1]]

\* torch.tensor(gather_rank_iids).view(-1)
ViewIids(gathered) == Flatten(gathered)

\* torch.tensor(gather_rank_scores).view(len(iids), -1)
ViewScores(gathered, rows) ==
    LET flat  == Flatten(Flatten(gathered))
        width == Len(flat) \div rows
    IN  [r \in 1..rows |-> SubSeq(flat, (r - 1) * width + 1, r * width)]

\* scores.topk(k): the positions of the k largest entries (the scores of a
\* corpus are pairwise different, so these are determined)
TopK(values, k) ==
    {i \in DOMAIN values : Cardinality({j \in DOMAIN values : values[j] > values[i]}) < k}

Column(matrix, t) == [r \in DOMAIN matrix |-> matrix[r][t]]

\* (iids.unsqueeze(1) == tiids[scores.topk(k, dim=1).indices]).float().max(dim=1)[0].mean()
TextRecall(sc, ii, ti, k) ==
    <<Cardinality({r \in DOMAIN sc : \E t \in TopK(sc[r], k) : ti[t] = ii[r]}), Len(sc)>>

\* (tiids.unsqueeze(0) == iids[scores.topk(k, dim=0).indices]).float().max(dim=0)[0].mean()
ImageRecall(sc, ii, ti, k) ==
    <<Cardinality({t \in DOMAIN ti : \E r \in TopK(Column(sc, t), k) : ii[r] = ti[t]}),
      Len(ti)>>

\* topk(k) raises when the dimension has fewer than k entries
RecallResult(sc, ii, ti) ==
    IF Len(ti) < K10 \/ Len(sc) < K10
    THEN [raised |-> "selected index k out of range"]
    ELSE [returned |-> <<ImageRecall(sc, ii, ti, K1), ImageRecall(sc, ii, ti, K5),
                         ImageRecall(sc, ii, ti, K10), TextRecall(sc, ii, ti, K1),
                         TextRecall(sc, ii, ti, K5), TextRecall(sc, ii, ti, K10)>>]

\* the global view and the recall computation
Recall(p) ==
    /\ pc[p] = "recall"
    /\ iids' = [iids EXCEPT ![p] = ViewIids(gather_rank_iids[p])]
    /\ scores' = [scores EXCEPT ![p] = ViewScores(gather_rank_scores[p], Len(iids'[p]))]
    /\ result' = [result EXCEPT ![p] = RecallResult(scores'[p], iids'[p], tiids[p])]
    /\ pc' = [pc EXCEPT ![p] = "done"]
    /\ UNCHANGED <<dset, world, text_preload, tiids, image_preload, rank_scores,
                   rank_iids, arrived, gathering_scores, gathering_iids,
                   gather_rank_scores, gather_rank_iids, objVars>>

\* ------------------------------------------------------------ environment
\* the trainer switches pl_module.train() / pl_module.eval()
SetTraining ==
    /\ training' = ~training
    /\ UNCHANGED <<config, batch, infer, acc, calls, last_call, updates,
                   logged, enc_in, ret, recallVars>>

\* the trainer resets the accumulators at an epoch boundary
EpochReset ==
    /\ calls > 0
    /\ acc' = [n \in AccNames |-> 0]
    /\ calls' = 0
    /\ UNCHANGED <<training, config, batch, infer, last_call, updates,
                   logged, enc_in, ret, recallVars>>

\* ------------------------------------------------------------ batches
BaseConfig ==
    [mim_layer |-> -1, norm_pix_loss |-> FALSE, vqa_label_size |-> 2,
     language_only |-> FALSE, vision_only |-> FALSE, draw_false_text |-> 1,
     clm_num_beams |-> 1, pad_token_id |-> 0, cls_token_id |-> 1]

\* a batch of n examples with one image view and plain contents
BaseBatch(n) ==
    [text              |-> [i \in 1..n |-> i],
     image             |-> <<[i \in 1..n |-> i % NumPixels]>>,
     false_image_0     |-> <<[i \in 1..n |-> (i + 1) % NumPixels]>>,
     text_ids          |-> [i \in 1..n |-> i],
     text_masks        |-> [i \in 1..n |-> 100 + i],
     text_labels       |-> [i \in 1..n |-> 200 + i],
     false_text_ids    |-> [k \in 1..MaxFalse |-> [i \in 1..n |-> 10 * k + i]],
     false_text_masks  |-> [k \in 1..MaxFalse |-> [i \in 1..n |-> 100 + 10 * k + i]],
     false_text_labels |-> [k \in 1..MaxFalse |-> [i \in 1..n |-> 200 + 10 * k + i]],
     vqa_labels        |-> [i \in 1..n |-> <<0>>],
     vqa_scores        |-> [i \in 1..n |-> <<1>>],
     answer_types      |-> [i \in 1..n |-> 0],
     cls_labels        |-> [i \in 1..n |-> 0],
     mlc_labels        |-> [i \in 1..n |-> <<1, 0>>],
     findings          |-> [i \in 1..n |-> "Clear Lungs"],
     impression        |-> [i \in 1..n |-> "No Effusion"]]

\* a [n, l, d] tensor of 0/1 features
Tensor(n, l, d, a, e) ==
    [i \in 1..n |-> [j \in 1..l |-> [k \in 1..d |-> (a * j + k + e * i) % 2]]]

\* what the encoder, the heads, the tokenizer and the decoder return for it
BaseInfer(n) ==
    [mlm_logits       |-> [b \in 1..n |-> <<<<b - 1, 0>>, <<b - 1, 1>>>>],
     text_labels      |-> [b \in 1..n |-> <<NoLossLabel, 2>>],
     text_ids         |-> [b \in 1..n |-> <<1, 2>>],
     mim_logits       |-> [layer \in {-1, 1} |-> Tensor(n, 1, 1, 0, 0)],
     patched_images   |-> Tensor(n, 1, 1, 1, 0),
     mim_masks        |-> [b \in 1..n |-> <<1>>],
     itm_logits       |-> [b \in 1..n |-> b - 1],
     itc_logits_image |-> [b \in 1..n |-> b - 1],
     itc_logits_text  |-> [b \in 1..n |-> b - 1],
     vqa_logits       |-> [b \in 1..n |-> b - 1],
     cls_logits       |-> [b \in 1..n |-> b - 1],
     mlc_logits       |-> [b \in 1..n |-> b - 1],
     clm_input_ids    |-> [b \in 1..n |-> <<1, 2>>],
     clm_logits       |-> [b \in 1..n |-> <<<<b - 1, 0>>, <<b - 1, 1>>>>],
     decoded          |-> [b \in 1..n |-> "clear lungs"]]

\* no recall evaluation is running
RecallIdle ==
    /\ dset = [images |-> 0, tiids |-> <<>>, score |-> <<>>]
    /\ world = 0
    /\ pc = <<>>
    /\ text_preload = <<>>
    /\ tiids = <<>>
    /\ image_preload = <<>>
    /\ rank_scores = <<>>
    /\ rank_iids = <<>>
    /\ arrived = {}
    /\ gathering_scores = {}
    /\ gathering_iids = {}
    /\ gather_rank_scores = <<>>
    /\ gather_rank_iids = <<>>
    /\ iids = <<>>
    /\ scores = <<>>
    /\ result = <<>>

InitCommon ==
    /\ RecallIdle
    /\ training \in BOOLEAN
    /\ acc = [n \in AccNames |-> 0]
    /\ calls = 0
    /\ last_call = [task |-> "none", test |-> FALSE, training |-> FALSE]
    /\ updates = <<>>
    /\ logged = <<>>
    /\ enc_in = <<>>
    /\ ret = [task |-> "none"]

\* ------------------------------------------------ every objective (Spec)
Init ==
    /\ InitCommon
    /\ \E n \in 1..2, empty \in BOOLEAN :
          /\ batch = BaseBatch(n)
          /\ infer = [BaseInfer(n) EXCEPT
                         !.decoded = [b \in 1..n |-> IF empty /\ b = 1 THEN "" ELSE "clear lungs"]]
    /\ \E K \in 1..MaxFalse : config = [BaseConfig EXCEPT !.draw_false_text = K]

Next ==
    \/ compute_mlm
    \/ compute_umlm
    \/ compute_mim
    \/ compute_umim
    \/ compute_itm
    \/ compute_itc
    \/ \E test \in BOOLEAN : compute_vqa(test)
    \/ \E test \in BOOLEAN : compute_cls(test)
    \/ \E test \in BOOLEAN : compute_mlc(test)
    \/ \E test \in BOOLEAN : compute_clm(test)
    \/ \E test \in BOOLEAN : compute_irtr(test)
    \/ SetTraining
    \/ EpochReset

Spec == Init /\ [][Next]_vars

\* ------------------------------------------------------------ ITM (SpecItm)
InitItm ==
    /\ InitCommon
    /\ config = BaseConfig
    /\ \E n \in 1..MaxBatch, V \in 1..MaxViews, a, b \in 0..(NumPixels - 1), c \in 1..2 :
          /\ batch = [BaseBatch(n) EXCEPT
                         !.image = [v \in 1..V |-> [i \in 1..n |-> (i + v + a) % NumPixels]],
                         !.false_image_0 =
                             [v \in 1..V |-> [i \in 1..n |-> (c * i + v + b) % NumPixels]]]
          /\ infer = BaseInfer(n)

NextItm == compute_itm \/ SetTraining \/ EpochReset

SpecItm == InitItm /\ [][NextItm]_vars

\* ------------------------------------------------------------ MIM (SpecMim)
InitMim ==
    /\ InitCommon
    /\ \E layer \in {-1, 1} :
          config = [BaseConfig EXCEPT !.mim_layer = layer, !.norm_pix_loss = (layer = 1)]
    /\ \E n \in 1..2, l \in 1..MaxPatches, d \in 1..MaxFeat, a, e, f \in 0..1 :
          /\ batch = BaseBatch(n)
          /\ \E mask \in [1..n -> [1..l -> {0, 1}]] :
                infer = [BaseInfer(n) EXCEPT
                            !.mim_logits = [layer \in {-1, 1} |->
                                               Tensor(n, l, d, a, IF layer = 1 THEN 1 - e ELSE e)],
                            !.patched_images = Tensor(n, l, d, 1 - a, f),
                            !.mim_masks = mask]

NextMim == compute_mim \/ compute_umim \/ SetTraining \/ EpochReset

SpecMim == InitMim /\ [][NextMim]_vars

\* ------------------------------------------------------------ CLM (SpecClm)
\* a tokenized text: the start id, len content ids, then padding up to L
TokenRow(L, len, b, a) ==
    [k \in 1..L |-> IF k = 1 THEN 1
                    ELSE IF k <= 1 + len THEN 2 + ((b + k + a) % 2)
                    ELSE 0]

InitClm ==
    /\ InitCommon
    /\ \E vo \in BOOLEAN, beams \in 1..2 :
          config = [BaseConfig EXCEPT !.vision_only = vo, !.clm_num_beams = beams]
    /\ \E n \in 1..2, L \in 1..MaxLen, a \in 0..1, empties \in SUBSET {1, 2} :
       \E lens \in [1..n -> 0..(L - 1)] :
          /\ batch = BaseBatch(n)
          /\ infer = [BaseInfer(n) EXCEPT
                         !.clm_input_ids = [b \in 1..n |-> TokenRow(L, lens[b], b, a)],
                         !.clm_logits = [b \in 1..n |-> [k \in 1..L |-> <<b - 1, k - 1>>]],
                         !.decoded = [b \in 1..n |->
                                         IF b \in empties THEN "" ELSE "clear lungs"]]

NextClm == (\E test \in BOOLEAN : compute_clm(test)) \/ SetTraining \/ EpochReset

SpecClm == InitClm /\ [][NextClm]_vars

\* ---------------------------------------------------------- IRTR (SpecIrtr)
InitIrtr ==
    /\ InitCommon
    /\ \E K \in 1..MaxFalse : config = [BaseConfig EXCEPT !.draw_false_text = K]
    /\ \E n \in 1..MaxBatch, a \in 0..(NumPixels - 1), s \in 0..2 :
          /\ batch = [BaseBatch(n) EXCEPT
                         !.image = <<[i \in 1..n |-> (i + a) % NumPixels]>>,
                         !.text_ids = [i \in 1..n |-> i + s],
                         !.text_masks = [i \in 1..n |-> 100 + i + s],
                         !.text_labels = [i \in 1..n |-> 200 + i + s]]
          /\ infer = BaseInfer(n)

NextIrtr == (\E test \in BOOLEAN : compute_irtr(test)) \/ SetTraining \/ EpochReset

SpecIrtr == InitIrtr /\ [][NextIrtr]_vars

\* ------------------------------------------------------------ VQA (SpecVqa)
\* soft scores, in tenths
VqaScoreSet == {3, 10}

InitVqa ==
    /\ InitCommon
    /\ \E C \in 1..MaxAnswers, n \in 1..2, len \in 0..MaxPairs :
       \E labels \in [1..len -> 0..(C - 1)], vscores \in [1..len -> VqaScoreSet] :
          /\ config = [BaseConfig EXCEPT !.vqa_label_size = C]
          \* the second example carries the same pairs in reverse order
          /\ batch = [BaseBatch(n) EXCEPT
                         !.vqa_labels = [i \in 1..n |->
                             [k \in 1..len |-> IF i = 1 THEN labels[k] ELSE labels[len + 1 - k]]],
                         !.vqa_scores = [i \in 1..n |->
                             [k \in 1..len |-> IF i = 1 THEN vscores[k] ELSE vscores[len + 1 - k]]]]
          /\ infer = BaseInfer(n)

NextVqa == (\E test \in BOOLEAN : compute_vqa(test)) \/ SetTraining \/ EpochReset

SpecVqa == InitVqa /\ [][NextVqa]_vars

\* ------------------------------------------- recall evaluator (SpecRecall)
\* corpora: a few images, or just enough for recall@10
CorpusSizes == (1..MaxImages) \cup {K10}

\* the head's score of image i against text t; no two scores of a corpus are
\* equal.  "own": every caption of the image outscores every other text and
\* image; "plain" and "reverse": scores unrelated to the captions.
CorpusScore(kind, n, ti) ==
    [i \in 1..n |->
        [t \in 1..Len(ti) |->
            LET cell == (i - 1) * Len(ti) + t
            IN  CASE kind = "own" -> IF ti[t] = i - 1 THEN 1000 + cell ELSE cell
                  [] kind = "plain" -> cell
                  [] OTHER -> 0 - cell]]

Corpus(n, per_image, kind) ==
    LET ti == [t \in 1..(n * per_image) |-> (t - 1) \div per_image]
    IN  [images |-> n, tiids |-> ti, score |-> CorpusScore(kind, n, ti)]

InitRecall ==
    /\ training = FALSE
    /\ config = BaseConfig
    /\ batch = BaseBatch(1)
    /\ infer = BaseInfer(1)
    /\ acc = [n \in AccNames |-> 0]
    /\ calls = 0
    /\ last_call = [task |-> "none", test |-> FALSE, training |-> FALSE]
    /\ updates = <<>>
    /\ logged = <<>>
    /\ enc_in = <<>>
    /\ ret = [task |-> "none"]
    /\ \E n \in CorpusSizes, per_image \in 1..2, kind \in {"own", "plain", "reverse"} :
          /\ n = K10 => per_image = 1
          /\ dset = Corpus(n, per_image, kind)
    /\ world \in 1..MaxWorld
    /\ pc = [p \in Procs |-> "prefetch"]
    /\ text_preload = [p \in Procs |-> <<>>]
    /\ tiids = [p \in Procs |-> <<>>]
    /\ image_preload = [p \in Procs |-> <<>>]
    /\ rank_scores = [p \in Procs |-> <<>>]
    /\ rank_iids = [p \in Procs |-> <<>>]
    /\ arrived = {}
    /\ gathering_scores = {}
    /\ gathering_iids = {}
    /\ gather_rank_scores = [p \in Procs |-> <<>>]
    /\ gather_rank_iids = [p \in Procs |-> <<>>]
    /\ iids = [p \in Procs |-> <<>>]
    /\ scores = [p \in Procs |-> <<>>]
    /\ result = [p \in Procs |-> [pending |-> TRUE]]

NextRecall ==
    \/ \E p \in Procs : Prefetch(p)
    \/ \E p \in Procs : RankStep(p)
    \/ \E p \in Procs : EnterBarrier(p)
    \/ \E p \in Procs : LeaveBarrier(p)
    \/ \E p \in Procs : StartGatherScores(p)
    \/ \E p \in Procs : EndGatherScores(p)
    \/ \E p \in Procs : StartGatherIids(p)
    \/ \E p \in Procs : EndGatherIids(p)
    \/ \E p \in Procs : Recall(p)

SpecRecall == InitRecall /\ [][NextRecall]_vars

\* ================================================================ claims
\* the phase of the last objective call, from its arguments
LastPhase ==
    IF last_call.test THEN "test" ELSE IF last_call.training THEN "train" ELSE "val"

Ones(labels) == Cardinality({i \in DOMAIN labels : labels[i] = 1})

Zeros(labels) == Cardinality({i \in DOMAIN labels : labels[i] = 0})

\* C1 as stated: after compute_itm on a batch of N >= 1 examples, whatever the
\* permutation, the label vector has ceil(N/2) ones and floor(N/2) zeros.
C1_CeilOnes ==
    ret.task = "itm" =>
        /\ Ones(ret.itm_labels) = (BatchSize + 1) \div 2
        /\ Zeros(ret.itm_labels) = BatchSize \div 2

\* C1 amended: after compute_itm on a batch of N >= 1 examples, whatever the
\* permutation, the label vector has N entries, floor(N/2) of them ones and
\* ceil(N/2) of them zeros.
C1_FloorOnes ==
    ret.task = "itm" =>
        /\ Len(ret.itm_labels) = BatchSize
        /\ Ones(ret.itm_labels) = BatchSize \div 2
        /\ Zeros(ret.itm_labels) = (BatchSize + 1) \div 2

\* an odd batch went through compute_itm and its single positive is not first
C1_Witness ==
    /\ ret.task = "itm"
    /\ BatchSize = 3
    /\ ret.itm_labels = <<0, 0, 1>>

\* C2: after compute_itm, for every view v and example i the image handed to
\* the encoder is the true image i when label i is 1 and false_image_0[i]
\* otherwise (so, where the two differ, it is the true image iff the label is
\* 1), and the labels returned are the ones the loss was computed on.
C2_ImageFollowsLabel ==
    ret.task = "itm" =>
        /\ Len(enc_in.image) = Len(batch.image)
        /\ \A v \in DOMAIN batch.image :
              /\ Len(enc_in.image[v]) = BatchSize
              /\ \A i \in 1..BatchSize :
                    LET chosen == enc_in.image[v][i]
                        ti     == batch.image[v][i]
                        fi     == batch.false_image_0[v][i]
                    IN  /\ ret.itm_labels[i] = 1 => chosen = ti
                        /\ ret.itm_labels[i] # 1 => chosen = fi
                        /\ ti # fi => (chosen = ti <=> ret.itm_labels[i] = 1)
        /\ ret.itm_loss = [i \in 1..BatchSize |-> <<infer.itm_logits[i], ret.itm_labels[i]>>]

\* a batch with both labels present and a negative image that differs from
\* the true one went through compute_itm
C2_Witness ==
    /\ ret.task = "itm"
    /\ \E i, j \in 1..BatchSize :
          /\ ret.itm_labels[i] = 1
          /\ ret.itm_labels[j] = 0
          /\ batch.image[1][j] # batch.false_image_0[1][j]
          /\ enc_in.image[1][j] = batch.false_image_0[1][j]
          /\ enc_in.image[1][i] = batch.image[1][i]

\* the steps of compute_irtr_recall after the barrier
AfterBarrier == {"gather_scores", "wait_scores", "gather_iids", "wait_iids", "recall", "done"}

\* C3: no process is at or past the all_gather calls while another process
\* is still prefetching or ranking or has not entered the barrier; and in the
\* global view of a process that finished, row r of the score matrix is the
\* list of scores of the image whose id is entry r of the id list, against
\* every text in order.
C3_BarrierThenPairedGather ==
    /\ \A p, q \in Procs :
          pc[p] \in AfterBarrier =>
              /\ pc[q] \notin {"prefetch", "rank"}
              /\ q \in arrived
              /\ Len(rank_iids[q]) = Len(image_preload[q])
              /\ Len(rank_scores[q]) = Len(image_preload[q])
    /\ \A p \in Procs :
          pc[p] = "done" =>
              /\ Len(scores[p]) = Len(iids[p])
              /\ Len(iids[p]) = world * Len(image_preload[p])
              /\ \A r \in DOMAIN iids[p] :
                    scores[p][r] = dset.score[iids[p][r] + 1]

\* two processes finished, and the first one's global view holds a row that
\* the second one ranked
C3_Witness ==
    /\ world = 2
    /\ dset.images = 3
    /\ pc = <<"done", "done">>
    /\ iids[1] = <<0, 2, 1, 0>>
    /\ scores[1][3] = rank_scores[2][1]
    /\ scores[1][3] # scores[1][1]

\* C4: once a process has gathered the image ids, the gathered ids hold
\* every image id of the dataset exactly once, whatever the dataset size and
\* the number of processes.
C4_EachImageOnce ==
    \A p \in Procs :
        pc[p] \in {"recall", "done"} =>
            LET ids == Flatten(gather_rank_iids[p])
            IN  \A i \in 0..(dset.images - 1) :
                    Cardinality({r \in DOMAIN ids : ids[r] = i}) = 1

\* one caption per image, and each image's own caption has the highest score
\* of its row and of its column
OwnCaptionWins ==
    /\ Len(dset.tiids) = dset.images
    /\ \A t \in DOMAIN dset.tiids : dset.tiids[t] = t - 1
    /\ \A i \in 1..dset.images : \A t \in DOMAIN dset.tiids :
          t # i => /\ dset.score[i][i] > dset.score[i][t]
                   /\ dset.score[i][i] > dset.score[t][i]

\* C5: on a single process, with one caption per image and each image's own
\* caption scoring highest in its row and column, compute_irtr_recall returns
\* (ir@1, ir@5, ir@10, tr@1, tr@5, tr@10) with ir@1 = tr@1 = 1.0 - the corpus
\* of 3 images and 3 texts included.
C5_PerfectRecallAtOne ==
    (world = 1 /\ OwnCaptionWins /\ pc[1] = "done") =>
        /\ "returned" \in DOMAIN result[1]
        /\ Len(result[1].returned) = 6
        /\ result[1].returned[1] = <<Len(dset.tiids), Len(dset.tiids)>>
        /\ result[1].returned[4] = <<dset.images, dset.images>>

\* C6: every objective call has one phase - test when the test override is
\* set, else train when pl_module.training, else val; every accumulator it
\* updates and every key it logs carries that phase, each accumulator it
\* updates is updated exactly once, and every other accumulator keeps its count.
C6_OnePhasePerCall ==
    [][calls' = calls + 1 =>
          LET phase   == IF last_call'.test THEN "test"
                         ELSE IF training THEN "train" ELSE "val"
              touched == {updates'[k].acc : k \in DOMAIN updates'}
          IN  /\ touched # {}
              /\ \A k \in DOMAIN updates' :
                    /\ updates'[k].acc[1] = phase
                    /\ updates'[k].acc[2] = last_call'.task
              /\ \A k \in DOMAIN logged' :
                    /\ logged'[k][2] = phase
                    /\ logged'[k][1] = last_call'.task
              /\ \A n \in AccNames :
                    acc'[n] = acc[n] + (IF n \in touched THEN 1 ELSE 0)]_vars

\* compute_vqa ran with the test override while the model was in training mode
C6_Witness ==
    /\ last_call.task = "vqa"
    /\ last_call.test
    /\ last_call.training
    /\ acc[<<"test", "vqa", "loss">>] = 1
    /\ acc[<<"test", "vqa", "score">>] = 1
    /\ acc[<<"train", "vqa", "loss">>] = 0

\* C7: after compute_clm on token rows of length L, row b of the logits used
\* holds the logits of positions 0..L-2, the label of logit position t is the
\* input id at position t+1, and the terms of the loss are exactly the
\* positions whose label is not the padding id.
C7_ShiftAndPadding ==
    ret.task = "clm" =>
        LET ids == infer.clm_input_ids
            pad == config.pad_token_id
        IN  /\ \A b \in DOMAIN ids :
                  /\ Len(ret.clm_logits[b]) = Len(ids[b]) - 1
                  /\ Len(ret.clm_labels[b]) = Len(ids[b]) - 1
                  /\ \A t \in 0..(Len(ids[b]) - 2) :
                        /\ ret.clm_logits[b][t + 1] = <<b - 1, t>>
                        /\ ret.clm_labels[b][t + 1] = ids[b][t + 2]
            /\ LET kept == UNION {{<<<<b - 1, t>>, ids[b][t + 2]>> :
                                      t \in {u \in 0..(Len(ids[b]) - 2) : ids[b][u + 2] # pad}} :
                                   b \in DOMAIN ids}
               IN  /\ Range(ret.clm_loss) = kept
                   /\ Len(ret.clm_loss) = Cardinality(kept)

\* compute_clm ran on a row of length 3 whose last label is padding
C7_Witness ==
    /\ ret.task = "clm"
    /\ \E b \in DOMAIN infer.clm_input_ids :
          /\ Len(infer.clm_input_ids[b]) = 3
          /\ infer.clm_input_ids[b][2] # config.pad_token_id
          /\ infer.clm_input_ids[b][3] = config.pad_token_id
          /\ <<<<b - 1, 0>>, infer.clm_input_ids[b][2]>> \in Range(ret.clm_loss)
          /\ \A term \in Range(ret.clm_loss) : term[1] # <<b - 1, 1>>

ClmTextAccs == {n \in AccNames : n[2] = "clm" /\ n[3] # "loss"}

\* C8: after compute_clm in the train phase the result has no generated
\* texts and no BLEU / ROUGE / caption accumulator was updated (their train
\* counts stay 0); in the other phases every generated text returned, which
\* is what those accumulators are handed, is non-empty: the decoded text, or
\* the fallback phrase where the decoded text is empty.
C8_DecodeOutsideTrain ==
    /\ \A n \in ClmTextAccs : n[1] = "train" => acc[n] = 0
    /\ ret.task = "clm" =>
          IF LastPhase = "train"
          THEN /\ "gen_texts" \notin DOMAIN ret
               /\ \A k \in DOMAIN updates : updates[k].acc \notin ClmTextAccs
          ELSE /\ "gen_texts" \in DOMAIN ret
               /\ DOMAIN ret.gen_texts = DOMAIN infer.decoded
               /\ \A k \in DOMAIN ret.gen_texts :
                     /\ ret.gen_texts[k] # ""
                     /\ ret.gen_texts[k] =
                            IF infer.decoded[k] = ""
                            THEN "there is no evidence of pulmonary."
                            ELSE infer.decoded[k]
               /\ \A k \in DOMAIN updates :
                     updates[k].acc \in ClmTextAccs =>
                         /\ updates[k].args[1] = "gen_texts"
                         /\ updates[k].acc[1] = LastPhase
               /\ \A n \in ClmTextAccs :
                     n[1] = LastPhase => \E k \in DOMAIN updates : updates[k].acc = n

\* compute_clm ran in the val phase and the decoder returned an empty text
C8_Witness ==
    /\ ret.task = "clm"
    /\ LastPhase = "val"
    /\ \E k \in DOMAIN infer.decoded :
          /\ infer.decoded[k] = ""
          /\ ret.gen_texts[k] = "there is no evidence of pulmonary."
    /\ acc[<<"val", "clm", "rouge">>] = 1

RECURSIVE SqErrOver(_, _, _)
\* the squared errors of the patches in S, each summed over its features
SqErrOver(S, logits, labels) ==
    IF S = {} THEN 0
    ELSE LET p == CHOOSE q \in S : TRUE
             n == p[1]
             l == p[2]
         IN  SumSeq([d \in DOMAIN logits[n][l] |->
                        (logits[n][l][d] - labels[n][l][d]) * (logits[n][l][d] - labels[n][l][d])])
             + SqErrOver(S \ {p}, logits, labels)

\* the tensors that differ from x in one feature of one patch outside S
ChangedOutside(x, S) ==
    {[x EXCEPT ![n][l][d] = v] :
        n \in DOMAIN x, l \in DOMAIN x[1], d \in DOMAIN x[1][1], v \in 0..2}
    \ {[x EXCEPT ![p[1]][p[2]][d] = v] :
        p \in S, d \in DOMAIN x[1][1], v \in 0..2}

\* C9: after compute_mim / compute_umim with a mask that leaves at least one
\* patch unmasked, the loss is the sum over the masked patches of their
\* squared errors divided by (feature width * number of masked patches), i.e.
\* the mean over masked patches of the per-patch feature mean; and changing a
\* prediction or a target of an unmasked patch gives the same loss.
C9_MaskedMean ==
    ret.task \in {"mim", "umim"} =>
        LET logits == IF ret.task = "mim" THEN ret.mim_logits ELSE ret.umim_logits
            labels == IF ret.task = "mim" THEN ret.mim_labels ELSE ret.umim_labels
            loss   == IF ret.task = "mim" THEN ret.mim_loss ELSE ret.umim_loss
            mask   == infer.mim_masks
            cells  == {p \in (DOMAIN mask) \X (DOMAIN mask[1]) : TRUE}
            masked == {p \in cells : mask[p[1]][p[2]] = 1}
        IN  masked # cells =>
               /\ loss.num = SqErrOver(masked, logits, labels)
               /\ loss.den = Len(logits[1][1]) * Cardinality(masked)
               /\ \A other \in ChangedOutside(logits, masked) :
                     MimLoss(other, labels, mask) = loss
               /\ \A other \in ChangedOutside(labels, masked) :
                     MimLoss(logits, other, mask) = loss

\* compute_mim ran on a half mask: one patch masked, and an unmasked patch
\* whose prediction differs from its target
C9_Witness ==
    /\ ret.task = "mim"
    /\ \E n \in DOMAIN infer.mim_masks :
       \E l, m \in DOMAIN infer.mim_masks[n] :
          /\ infer.mim_masks[n][l] = 1
          /\ infer.mim_masks[n][m] = 0
          /\ ret.mim_logits[n][m] # ret.mim_labels[n][m]
    /\ ret.mim_loss.den > 0

\* C10: after compute_irtr with K = draw_false_text, every anchor b has K+1
\* candidates in the batch handed to the encoder, candidate 0 being its true
\* caption and candidates 1..K its negatives false_text_0..K-1 in order, each
\* paired with image b; score[b, j] is the score of that pair, and the
\* cross-entropy target of every anchor is 0.
C10_CandidateLayout ==
    ret.task = "irtr" =>
        LET K  == config.draw_false_text
            bs == Len(batch.image[1])
            cand(b, j) == IF j = 0 THEN batch.text_ids[b] ELSE batch.false_text_ids[j][b]
            cmask(b, j) == IF j = 0 THEN batch.text_masks[b] ELSE batch.false_text_masks[j][b]
        IN  /\ Len(enc_in.text_ids) = bs * (K + 1)
            /\ Len(enc_in.image) = bs * (K + 1)
            /\ Len(ret.irtr_loss) = bs
            /\ \A b \in 1..bs :
                  /\ ret.irtr_loss[b][2] = 0
                  /\ Len(ret.irtr_loss[b][1]) = K + 1
                  /\ \A j \in 0..K :
                        /\ enc_in.text_ids[(b - 1) * (K + 1) + j + 1] = cand(b, j)
                        /\ enc_in.image[(b - 1) * (K + 1) + j + 1] = batch.image[1][b]
                        /\ ret.irtr_loss[b][1][j + 1] =
                               [image |-> batch.image[1][b], text_ids |-> cand(b, j),
                                text_masks |-> cmask(b, j)]

\* compute_irtr ran on three anchors with two negatives each
C10_Witness ==
    /\ ret.task = "irtr"
    /\ config.draw_false_text = 2
    /\ Len(batch.image[1]) = 3
    /\ ret.irtr_loss[2][1][3].text_ids = batch.false_text_ids[2][2]
    /\ ret.irtr_loss[2][1][1].text_ids = batch.text_ids[2]

\* C11: after compute_vqa, the target matrix has one row of vqa_label_size
\* cells per example; a cell whose answer index is named by some pair of its
\* example holds the score of the last such pair (not the sum of the scores
\* of those pairs), and every other cell is 0.
C11_LastPairWins ==
    ret.task = "vqa" =>
        /\ Len(ret.vqa_targets) = Len(batch.vqa_labels)
        /\ \A i \in DOMAIN ret.vqa_targets :
              /\ Len(ret.vqa_targets[i]) = config.vqa_label_size
              /\ \A l \in 0..(config.vqa_label_size - 1) :
                    LET named == {k \in DOMAIN batch.vqa_labels[i] : batch.vqa_labels[i][k] = l}
                    IN  ret.vqa_targets[i][l + 1] =
                            IF named = {} THEN 0
                            ELSE batch.vqa_scores[i][CHOOSE k \in named : \A m \in named : m <= k]

\* compute_vqa ran on an example naming answer 0 twice, with scores 0.3 then
\* 1.0, and leaving answer 1 unnamed
C11_Witness ==
    /\ ret.task = "vqa"
    /\ config.vqa_label_size = 2
    /\ batch.vqa_labels[1] = <<0, 0>>
    /\ batch.vqa_scores[1] = <<3, 10>>
    /\ ret.vqa_targets[1] = <<10, 0>>

====
